---- MODULE Spec2Model ----
(***************************************************************************)
(* Model of the drvyn backend (src/app.py): the /ai chat pipeline (prompt  *)
(* assembly, provider dispatch, response parsing and date repair), the     *)
(* conversation log, the event store and the rate_limit decorator.         *)
(*                                                                         *)
(* Text is a sequence of one-character strings.  Assistant text is written *)
(* over a small alphabet:  "[", "]", "," and " " are themselves, "p" is   *)
(* any prose character that is not JSON syntax, and three letters stand    *)
(* for whole JSON literals that contain no bracket:                        *)
(*   "n"  null                                                             *)
(*   "M"  {"command":"MESSAGE","text":"ok"}                                *)
(*   "A"  {"command":"ADD","start":"d d","end":"dTTd","title":"t"}         *)
(* In a date string "d" is any character other than " " and "T".           *)
(***************************************************************************)
EXTENDS Integers, Sequences, FiniteSets, TLC

\* ---------------------------------------------------------------- bounds
\* longest raw assistant text enumerated by SpecParse
MaxLen == 5
\* longest date string enumerated by SpecNorm
MaxDateLen == 4

\* conversation rows after which no further chat request is started
MaxTurns == 2
\* the same for SpecChat and for SpecHistory
MaxChatTurns == 3
MaxHistoryTurns == 7
\* rows of the event table in Spec and SpecLimit, and in SpecEvents
MaxEvents == 1
MaxRows == 2
\* last instant of the clock read by rate_limit
MaxTime == 1
\* stand-ins for the decorator arguments max_requests=20 (events),
\* max_requests=10 (timezone) and window=60
EventCeiling == 1
TimezoneCeiling == 1
Window == 1

\* ------------------------------------------------------ program constants
\* .limit(5) of the conversation history query
HistoryLimit == 5
\* .limit(10) of the event context query
EventLimit == 10

VARIABLES
    AI_PROVIDER,      \* os.getenv("AI_PROVIDER", "cohere")
    api_key,          \* the environment value read for the active provider ("" = unset)
    conversations,    \* table Conversation, in insertion order
    events,           \* table Event, in insertion order
    timezone,         \* User.timezone of each user
    request_counts,   \* rate_limit's record: caller -> admitted request times
    admitted,         \* history: caller -> the time of every request rate_limit let through
    now,              \* time.time()
    pc,               \* where each caller's chat request stands
    req,              \* locals of each caller's chat request in flight
    resp,             \* the response sent last, and the caller it went to
    provider_calls,   \* calls made to the text-generation provider
    raw_text,         \* SpecParse: the assistant text under test
    parse_result,     \* SpecParse: what the parsing step made of it
    date_in,          \* SpecNorm: the date string under test
    date_out,         \* SpecNorm: the string after each pass
    passes            \* SpecNorm: passes applied

vars == <<AI_PROVIDER, api_key, conversations, events, timezone, request_counts, admitted,
          now, pc, req, resp, provider_calls, raw_text, parse_result, date_in,
          date_out, passes>>
configVars == <<AI_PROVIDER, api_key>>
pureVars == <<raw_text, parse_result, date_in, date_out, passes>>

\* ------------------------------------------------------------- text helpers
\* the characters SpecParse enumerates
ParseChars == {"[", "]", ",", " ", "p", "n", "A"}
DateChars == {"d", " ", "T"}

SeqsUpTo(S, n) == UNION {[1..k -> S] : k \in 0..n}

\* s[i..] as a sequence
Drop(s, n) == SubSeq(s, n + 1, Len(s))

\* str.replace(' ', 'T'): every space becomes T
ReplaceSpace(s) == [i \in 1..Len(s) |-> IF s[i] = " " THEN "T" ELSE s[i]]

\* str.replace('TT', 'T'): left to right, non-overlapping occurrences
RECURSIVE ReplaceTT(_)
ReplaceTT(s) ==
    IF Len(s) >= 2 /\ s[1] = "T" /\ s[2] = "T"
    THEN <<"T">> \o ReplaceTT(Drop(s, 2))
    ELSE IF s = <<>> THEN <<>>
    ELSE <<s[1]>> \o ReplaceTT(Drop(s, 1))

\* command['start'].replace(' ', 'T').replace('TT', 'T')
FixDate(s) == ReplaceTT(ReplaceSpace(s))

\* str.strip(): leading and trailing whitespace removed
RECURSIVE LStrip(_)
LStrip(s) == IF s # <<>> /\ s[1] = " " THEN LStrip(Drop(s, 1)) ELSE s
RECURSIVE RStrip(_)
RStrip(s) ==
    IF s # <<>> /\ s[Len(s)] = " " THEN RStrip(SubSeq(s, 1, Len(s) - 1)) ELSE s
Strip(s) == RStrip(LStrip(s))

\* ------------------------------------------------------------ JSON values
Null == [kind |-> "null"]
JList(items) == [kind |-> "list", items |-> items]
MessageCommand(text) == [kind |-> "dict", command |-> "MESSAGE", text |-> text]
AddLiteral ==
    [kind |-> "dict", command |-> "ADD", start |-> <<"d", " ", "d">>,
     end |-> <<"d", "T", "T", "d">>, title |-> <<"t">>]
MessageLiteral == MessageCommand(<<"o", "k">>)

\* the value a one-letter literal decodes to
LiteralValue(c) ==
    CASE c = "n" -> Null
      [] c = "M" -> MessageLiteral
      [] c = "A" -> AddLiteral

Fail == [ok |-> FALSE, val |-> Null, next |-> 0]
Ok(v, n) == [ok |-> TRUE, val |-> v, next |-> n]

\* json whitespace skipping: the first index >= i that holds no space
RECURSIVE SkipWs(_, _)
SkipWs(s, i) == IF i <= Len(s) /\ s[i] = " " THEN SkipWs(s, i + 1) ELSE i

\* json decoder, one value starting at index i
RECURSIVE ParseValue(_, _), ParseItems(_, _, _)
ParseValue(s, i) ==
    IF i > Len(s) THEN Fail
    ELSE IF s[i] \in {"n", "M", "A"} THEN Ok(LiteralValue(s[i]), i + 1)
    ELSE IF s[i] = "["
         THEN LET j == SkipWs(s, i + 1) IN
              IF j <= Len(s) /\ s[j] = "]" THEN Ok(JList(<<>>), j + 1)
              ELSE ParseItems(s, j, <<>>)
    ELSE Fail
ParseItems(s, j, acc) ==
    LET v == ParseValue(s, j) IN
    IF ~v.ok THEN Fail
    ELSE LET k == SkipWs(s, v.next) IN
         IF k > Len(s) THEN Fail
         ELSE IF s[k] = "," THEN ParseItems(s, SkipWs(s, k + 1), Append(acc, v.val))
         ELSE IF s[k] = "]" THEN Ok(JList(Append(acc, v.val)), k + 1)
         ELSE Fail

\* json.loads(s): one value, then nothing but whitespace; ok = FALSE is
\* JSONDecodeError
JsonLoads(s) ==
    LET v == ParseValue(s, SkipWs(s, 1)) IN
    IF v.ok /\ SkipWs(s, v.next) = Len(s) + 1 THEN v ELSE Fail

\* re.search(r'\[.*\]', s, re.DOTALL): leftmost "[" that has a "]" after it,
\* extended to the last "]" of the text
Opens(s) == {i \in 1..Len(s) : s[i] = "[" /\ \E j \in (i + 1)..Len(s) : s[j] = "]"}
Min(S) == CHOOSE x \in S : \A y \in S : x <= y
Max(S) == CHOOSE x \in S : \A y \in S : x >= y
\* the non-greedy pattern \[.*?\]: the match ends at the first "]"
ReSearchLazy(s) ==
    IF Opens(s) = {} THEN [found |-> FALSE, group |-> <<>>]
    ELSE LET i == Min(Opens(s))
             j == Min({k \in (i + 1)..Len(s) : s[k] = "]"})
         IN [found |-> TRUE, group |-> SubSeq(s, i, j)]

ReSearch(s) ==
    IF Opens(s) = {} THEN [found |-> FALSE, group |-> <<>>]
    ELSE LET i == Min(Opens(s))
             j == Max({k \in (i + 1)..Len(s) : s[k] = "]"})
         IN [found |-> TRUE, group |-> SubSeq(s, i, j)]

\* ------------------------------------------------- parsing step of ai()
\* the fallback that drops the text instead of wrapping it
ExtractCommandsNoWrap(assistant_msg) ==
    LET json_match == ReSearch(assistant_msg) IN
    IF json_match.found /\ JsonLoads(json_match.group).ok
    THEN JsonLoads(json_match.group).val.items
    ELSE <<>>

\* lines 446-462: parsed_commands before the date repair
ExtractCommands(assistant_msg) ==
    LET json_match == ReSearch(assistant_msg)
        fallback == <<MessageCommand(assistant_msg)>>
    IN IF json_match.found
       THEN LET decoded == JsonLoads(json_match.group) IN
            IF ~decoded.ok THEN fallback            \* except branch
            ELSE IF decoded.val.kind # "list" THEN fallback
            ELSE decoded.val.items
       ELSE fallback

\* lines 466-471 on one command: command.get exists on a dict only
HasGet(command) == command.kind = "dict"
FixField(command, f) ==
    IF f \in DOMAIN command /\ command[f] # <<>>
    THEN [command EXCEPT ![f] = FixDate(command[f])]
    ELSE command
FixCommand(command) == FixField(FixField(command, "start"), "end")

\* lines 464-471: the loop over parsed_commands; ok = FALSE is the
\* AttributeError of command.get on an element that is not a dict
NormalizeCommands(parsed_commands) ==
    IF \E i \in 1..Len(parsed_commands) : ~HasGet(parsed_commands[i])
    THEN [ok |-> FALSE, commands |-> <<>>]
    ELSE [ok |-> TRUE,
          commands |-> [i \in 1..Len(parsed_commands) |-> FixCommand(parsed_commands[i])]]

\* ------------------------------------------------------------ the service
Users == {1, 2}
Inputs == {<<"hi">>, <<"plan">>}

OPENAI_PLACEHOLDER == "your-openai-api-key-here"
COHERE_PLACEHOLDER == "your-cohere-api-key-here"
Keys == {"", OPENAI_PLACEHOLDER, COHERE_PLACEHOLDER, "sk-live"}

OpenAINotConfigured ==
    <<"I'm sorry, but the OpenAI API key is not configured. Please set up your OpenAI API key in the .env file.">>
CohereNotConfigured ==
    <<"I'm sorry, but the Cohere API key is not configured. Please set up your Cohere API key in the .env file.">>
NoProviderConfigured ==
    <<"I'm sorry, but no AI provider is configured. Please set up either OpenAI or Cohere API key in the .env file.">>
OpenAIError(detail) == <<"I'm sorry, but there was an error with the OpenAI service: ">> \o detail
CohereError(detail) == <<"I'm sorry, but there was an error with the Cohere service: ">> \o detail

\* timezone names; pytz.timezone raises UnknownTimeZoneError on the last
TimezoneNames == {"UTC", "Mars/Phobos"}
KnownTimezone(tz) == tz = "UTC"

NoRequest == [user_input |-> <<>>, user_conversation |-> 0, messages |-> <<>>,
              assistant_msg |-> <<>>]
\* a response: the endpoint that answered, the HTTP status, the "error" or
\* "commands" member of the body, and what the handler wrote to app.logger
Response(endpoint, status, error, commands, logged) ==
    [endpoint |-> endpoint, status |-> status, error |-> error,
     commands |-> commands, logged |-> logged, events |-> <<>>]
NoResponse == Response("", 0, "", <<>>, "")
\* line 96
RateLimited(endpoint) == Response(endpoint, 429, "Rate limit exceeded", <<>>, "")
\* line 473
Success(commands) == Response("ai", 200, "", commands, "")
\* line 341
NoInput == Response("ai", 400, "No input provided", <<>>, "")
\* the response r as delivered to caller u
Sent(u, r) == [user |-> u] @@ r
\* lines 475-477: the exception is logged, the caller gets the generic error
ServerError(exc) == Response("ai", 500, "Failed to process request", <<>>, exc)

\* request bodies of POST /ai: no usable JSON object, or an object whose
\* "input" is missing (has_input = FALSE), empty or a text
NoBody == [usable |-> FALSE, has_input |-> FALSE, input |-> <<>>]
JsonBody(has, input) == [usable |-> TRUE, has_input |-> has, input |-> input]
BadBodies == {NoBody, JsonBody(FALSE, <<>>), JsonBody(TRUE, <<>>)}

\* a row that is added but never committed
AppendTurnNoCommit(log, u, role, content) == log

\* db.session.add(Conversation(...)); db.session.commit()
AppendTurn(log, u, role, content) ==
    Append(log, [id |-> Len(log) + 1, user_id |-> u, role |-> role,
                 content |-> content, timestamp |-> Len(log) + 1])

\* rows of a set of indices, by timestamp descending
RECURSIVE ByTimestampDesc(_, _)
ByTimestampDesc(log, idx) ==
    IF idx = {} THEN <<>>
    ELSE LET m == CHOOSE i \in idx :
                     \A j \in idx : log[j].timestamp <= log[i].timestamp
         IN <<log[m]>> \o ByTimestampDesc(log, idx \ {m})
Reverse(s) == [i \in 1..Len(s) |-> s[Len(s) + 1 - i]]
Limit(s, n) == SubSeq(s, 1, IF Len(s) < n THEN Len(s) ELSE n)

\* the history query without recent_conversations.reverse()
RecentConversationsNewestFirst(log, u) ==
    Limit(ByTimestampDesc(log, {i \in 1..Len(log) : log[i].user_id = u}), HistoryLimit)

\* lines 353-355: filter_by(user_id).order_by(timestamp.desc()).limit(5), reversed
RecentConversations(log, u) ==
    Reverse(Limit(ByTimestampDesc(log, {i \in 1..Len(log) : log[i].user_id = u}),
                  HistoryLimit))

\* lines 365-371: the caller's events of the trailing week, latest first,
\* at most 10, as the titles of the summary ("None" when there is none).
\* The request is served on day 10; start_time is a day number.
RECURSIVE ByStartDesc(_, _)
ByStartDesc(evs, idx) ==
    IF idx = {} THEN <<>>
    ELSE LET m == CHOOSE i \in idx :
                     \A j \in idx : evs[j].start_time <= evs[i].start_time
         IN <<evs[m]>> \o ByStartDesc(evs, idx \ {m})
EventSummary(evs, u) ==
    LET user_events ==
            Limit(ByStartDesc(evs, {i \in 1..Len(evs) :
                      evs[i].user_id = u /\ evs[i].start_time >= 10 - 7}), EventLimit)
    IN IF user_events = <<>> THEN <<"None">>
       ELSE [i \in 1..Len(user_events) |-> user_events[i].title]

\* lines 358-379: system instruction, context message, history
BuildMessages(log, evs, tz, u) ==
    <<[role |-> "system", content |-> <<"get_ai_prompt()">>],
      [role |-> "user",
       content |-> <<"Current time. User's timezone: ", tz, ". Current events: ">>
                   \o EventSummary(evs, u)]>>
    \o [i \in 1..Len(RecentConversations(log, u)) |->
          [role |-> RecentConversations(log, u)[i].role,
           content |-> RecentConversations(log, u)[i].content]]

\* the credential test that forgets the placeholder value
ConfiguredIfSet(provider, key) == key # ""

\* lines 384 and 402: not api_key or api_key == "<placeholder>"
Configured(provider, key) ==
    /\ key # ""
    /\ key # (IF provider = "openai" THEN OPENAI_PLACEHOLDER ELSE COHERE_PLACEHOLDER)

\* ------------------------------------------------------------- rate_limit
\* the decorator with the ceiling test len(user_requests) > max_requests
AdmitOneTooMany(counts, u, t, max_requests, window) ==
    LET InWindow(req_time) == t - req_time < window
        user_requests == SelectSeq(counts[u], InWindow)
    IN IF Len(user_requests) > max_requests
       THEN [admitted |-> FALSE, counts |-> [counts EXCEPT ![u] = user_requests]]
       ELSE [admitted |-> TRUE,
             counts |-> [counts EXCEPT ![u] = Append(user_requests, t)]]

\* lines 91-99: prune the caller's record to the window, reject at the
\* ceiling, otherwise record the request and run the handler
Admit(counts, u, t, max_requests, window) ==
    LET InWindow(req_time) == t - req_time < window
        user_requests == SelectSeq(counts[u], InWindow)
    IN IF Len(user_requests) >= max_requests
       THEN [admitted |-> FALSE, counts |-> [counts EXCEPT ![u] = user_requests]]
       ELSE [admitted |-> TRUE,
             counts |-> [counts EXCEPT ![u] = Append(user_requests, t)]]

\* ------------------------------------------------------------------ Init
ChatInit ==
    /\ AI_PROVIDER \in {"openai", "cohere", "other"}
    /\ api_key \in (IF AI_PROVIDER = "other" THEN {""} ELSE Keys)
    /\ conversations = <<>>
    /\ events = <<>>
    /\ timezone = [u \in Users |-> "UTC"]
    /\ request_counts = [u \in Users |-> <<>>]
    /\ admitted = [u \in Users |-> <<>>]
    /\ now = 0
    /\ pc = [u \in Users |-> "idle"]
    /\ req = [u \in Users |-> NoRequest]
    /\ resp = Sent(0, NoResponse)
    /\ provider_calls = 0

PureIdle ==
    /\ raw_text = <<>>
    /\ parse_result = [done |-> FALSE, extracted |-> <<>>, ok |-> FALSE, commands |-> <<>>]
    /\ date_in = <<>>
    /\ date_out = <<>>
    /\ passes = 0

Init == ChatInit /\ PureIdle

\* ------------------------------------------------------------ POST /ai
\* lines 337-379: read the input, save the user turn, assemble the prompt.
\* commit_ok = FALSE is db.session.commit() raising.
AiBegin(u, body, commit_ok, cap) ==
    /\ pc[u] = "idle"
    /\ Len(conversations) < cap
    /\ UNCHANGED <<configVars, events, timezone, request_counts, admitted, now,
                   provider_calls, pureVars>>
    /\ IF ~body.usable
       THEN /\ resp' = Sent(u, ServerError("BadRequest"))
            /\ UNCHANGED <<conversations, pc, req>>
       ELSE IF ~body.has_input \/ body.input = <<>>
       THEN /\ resp' = Sent(u, NoInput)
            /\ UNCHANGED <<conversations, pc, req>>
       ELSE IF ~commit_ok
       THEN /\ resp' = Sent(u, ServerError("OperationalError"))
            /\ UNCHANGED <<conversations, pc, req>>
       ELSE LET log == AppendTurn(conversations, u, "user", body.input)
                tz == IF timezone[u] = "" THEN "UTC" ELSE timezone[u]
            IN /\ conversations' = log
               /\ IF ~KnownTimezone(tz)
                  THEN /\ resp' = Sent(u, ServerError("UnknownTimeZoneError"))
                       /\ UNCHANGED <<pc, req>>
                  ELSE /\ UNCHANGED resp
                       /\ pc' = [pc EXCEPT ![u] = "provider"]
                       /\ req' = [req EXCEPT ![u] =
                              [user_input |-> body.input,
                               user_conversation |-> Len(log),
                               messages |-> BuildMessages(log, events, timezone[u], u),
                               assistant_msg |-> <<>>]]

\* lines 381-434: the provider step.  With a usable credential the provider
\* is called and either raises (detail = str(e)) or returns text.
AiProvider(u, raises, text) ==
    /\ pc[u] = "provider"
    /\ pc' = [pc EXCEPT ![u] = "save"]
    /\ UNCHANGED <<configVars, conversations, events, timezone, request_counts, admitted,
                   now, resp, pureVars>>
    /\ IF AI_PROVIDER \in {"openai", "cohere"} /\ Configured(AI_PROVIDER, api_key)
       THEN /\ provider_calls' = provider_calls + 1
            /\ req' = [req EXCEPT ![u].assistant_msg =
                   IF ~raises THEN Strip(text)
                   ELSE IF AI_PROVIDER = "openai" THEN OpenAIError(text)
                   ELSE CohereError(text)]
       ELSE /\ provider_calls' = provider_calls
            /\ req' = [req EXCEPT ![u].assistant_msg =
                   IF AI_PROVIDER = "openai" THEN OpenAINotConfigured
                   ELSE IF AI_PROVIDER = "cohere" THEN CohereNotConfigured
                   ELSE NoProviderConfigured]

\* lines 436-477: save the assistant turn, parse, repair dates, respond
AiFinish(u, commit_ok) ==
    /\ pc[u] = "save"
    /\ pc' = [pc EXCEPT ![u] = "idle"]
    /\ req' = [req EXCEPT ![u] = NoRequest]
    /\ UNCHANGED <<configVars, events, timezone, request_counts, admitted, now,
                   provider_calls, pureVars>>
    /\ IF ~commit_ok
       THEN /\ resp' = Sent(u, ServerError("OperationalError"))
            /\ UNCHANGED conversations
       ELSE LET result == NormalizeCommands(ExtractCommands(req[u].assistant_msg)) IN
            /\ conversations' =
                   AppendTurn(conversations, u, "assistant", req[u].assistant_msg)
            /\ resp' = Sent(u,
                   IF result.ok THEN Success(result.commands)
                   ELSE ServerError("AttributeError"))

\* ------------------------------------------------- rate-limited endpoints
\* bodies of POST /api/events.  valid = FALSE is a start or end that
\* datetime.fromisoformat rejects (or a missing key): the handler answers
\* 500 after the request was admitted and recorded.
EventData == {[title |-> <<"t">>, start |-> 9, valid |-> TRUE],
              [title |-> <<"old">>, start |-> 2, valid |-> TRUE],
              [title |-> <<"t">>, start |-> 0, valid |-> FALSE]}
\* the caller's history of requests let through, after decision r at time t
Passed(history, u, t, r) ==
    IF r.admitted THEN [history EXCEPT ![u] = Append(@, t)] ELSE history

\* the primary key of a new Event row, as the default sqlite database
\* assigns it: one more than the largest in the table
NextEventId(evs) ==
    IF evs = <<>> THEN 1 ELSE Max({evs[i].id : i \in 1..Len(evs)}) + 1

\* the lookup by id alone, without user_id=current_user.id
OwnEventAnyOwner(evs, event_id, u) == {i \in 1..Len(evs) : evs[i].id = event_id}

\* Event.query.filter_by(id=event_id, user_id=current_user.id).first():
\* the positions of the matching rows (at most one, id being the key)
OwnEvent(evs, event_id, u) ==
    {i \in 1..Len(evs) : evs[i].id = event_id /\ evs[i].user_id = u}

\* the body of an event in a response
EventJson(e) == [id |-> e.id, title |-> e.title, start |-> e.start_time, end |-> e.end_time]

\* lines 215-252: POST /api/events, while the table holds fewer than cap
\* rows.  created_by is history: the user whose request inserted the row.
create_event(u, data, cap) ==
    LET r == Admit(request_counts, u, now, EventCeiling, Window) IN
    /\ pc[u] = "idle"
    /\ Len(events) < cap
    /\ request_counts' = r.counts
    /\ admitted' = Passed(admitted, u, now, r)
    /\ UNCHANGED <<configVars, conversations, timezone, now, pc, req,
                   provider_calls, pureVars>>
    /\ IF ~r.admitted
       THEN /\ resp' = Sent(u, RateLimited("create_event"))
            /\ UNCHANGED events
       ELSE IF ~data.valid
       THEN /\ resp' = Sent(u,
                   Response("create_event", 500, "Failed to create event", <<>>, "ValueError"))
            /\ UNCHANGED events
       ELSE /\ events' = Append(events,
                   [id |-> NextEventId(events), title |-> data.title,
                    start_time |-> data.start, end_time |-> data.start,
                    user_id |-> u, created_by |-> u])
            /\ resp' = Sent(u, Response("create_event", 200, "", <<>>, ""))

\* lines 284-301: PUT /api/user/timezone
update_user_timezone(u, tz) ==
    LET r == Admit(request_counts, u, now, TimezoneCeiling, Window) IN
    /\ pc[u] = "idle"
    /\ request_counts' = r.counts
    /\ admitted' = Passed(admitted, u, now, r)
    /\ UNCHANGED <<configVars, conversations, events, now, pc, req,
                   provider_calls, pureVars>>
    /\ IF ~r.admitted
       THEN /\ resp' = Sent(u, RateLimited("update_user_timezone"))
            /\ UNCHANGED timezone
       ELSE IF tz = ""
       THEN /\ resp' = Sent(u,
                   Response("update_user_timezone", 400, "Timezone is required", <<>>, ""))
            /\ UNCHANGED timezone
       ELSE /\ timezone' = [timezone EXCEPT ![u] = tz]
            /\ resp' = Sent(u, Response("update_user_timezone", 200, "", <<>>, ""))

\* the response r to caller u's request that named event_id in its URL
SentFor(u, event_id, r) == [event_id |-> event_id] @@ Sent(u, r)

\* the table without the row at position i
RemoveAt(evs, i) == SubSeq(evs, 1, i - 1) \o SubSeq(evs, i + 1, Len(evs))

\* lines 254-268: DELETE /api/events/<event_id>
delete_event(u, event_id) ==
    LET r == Admit(request_counts, u, now, EventCeiling, Window)
        found == OwnEvent(events, event_id, u)
    IN
    /\ pc[u] = "idle"
    /\ request_counts' = r.counts
    /\ admitted' = Passed(admitted, u, now, r)
    /\ UNCHANGED <<configVars, conversations, timezone, now, pc, req,
                   provider_calls, pureVars>>
    /\ IF ~r.admitted
       THEN /\ resp' = SentFor(u, event_id, RateLimited("delete_event"))
            /\ UNCHANGED events
       ELSE IF found = {}
       THEN /\ resp' = SentFor(u, event_id,
                   Response("delete_event", 404, "Event not found", <<>>, ""))
            /\ UNCHANGED events
       ELSE /\ events' = RemoveAt(events, Min(found))
            /\ resp' = SentFor(u, event_id, Response("delete_event", 200, "", <<>>, ""))

\* bodies of PUT /api/events/<event_id>: with or without "title", and with
\* a start and end that datetime.fromisoformat accepts (valid) or rejects
UpdateData == {[has_title |-> TRUE, title |-> <<"new">>, start |-> 9, valid |-> TRUE],
               [has_title |-> FALSE, title |-> <<>>, start |-> 9, valid |-> TRUE],
               [has_title |-> TRUE, title |-> <<"new">>, start |-> 0, valid |-> FALSE]}

\* lines 303-331: PUT /api/events/<event_id>.  When fromisoformat raises,
\* the title already assigned is never committed and the row stays as it was.
update_event(u, event_id, data) ==
    LET r == Admit(request_counts, u, now, EventCeiling, Window)
        found == OwnEvent(events, event_id, u)
    IN
    /\ pc[u] = "idle"
    /\ request_counts' = r.counts
    /\ admitted' = Passed(admitted, u, now, r)
    /\ UNCHANGED <<configVars, conversations, timezone, now, pc, req,
                   provider_calls, pureVars>>
    /\ IF ~r.admitted
       THEN /\ resp' = SentFor(u, event_id, RateLimited("update_event"))
            /\ UNCHANGED events
       ELSE IF found = {}
       THEN /\ resp' = SentFor(u, event_id,
                   Response("update_event", 404, "Event not found", <<>>, ""))
            /\ UNCHANGED events
       ELSE IF ~data.valid
       THEN /\ resp' = SentFor(u, event_id,
                   Response("update_event", 500, "Failed to update event", <<>>, "ValueError"))
            /\ UNCHANGED events
       ELSE LET i == Min(found)
                event == [events[i] EXCEPT
                             !.title = IF data.has_title THEN data.title ELSE @,
                             !.start_time = data.start,
                             !.end_time = data.start]
            IN /\ events' = [events EXCEPT ![i] = event]
               /\ resp' = SentFor(u, event_id,
                      [Response("update_event", 200, "", <<>>, "")
                          EXCEPT !.events = <<EventJson(event)>>])

\* line 202: Event.query.filter_by(user_id=current_user.id).all()
EventsOf(evs, u) == SelectSeq(evs, LAMBDA e : e.user_id = u)

\* lines 197-213: GET /api/events (not rate limited: its decorator is
\* commented out)
get_events(u) ==
    LET own == EventsOf(events, u) IN
    /\ pc[u] = "idle"
    /\ resp' = Sent(u, [Response("get_events", 200, "", <<>>, "")
                           EXCEPT !.events = [i \in 1..Len(own) |-> EventJson(own[i])]])
    /\ UNCHANGED <<configVars, conversations, events, timezone, request_counts,
                   admitted, now, pc, req, provider_calls, pureVars>>

\* time passes
Tick ==
    /\ now < MaxTime
    /\ now' = now + 1
    /\ UNCHANGED <<configVars, conversations, events, timezone, request_counts, admitted,
                   pc, req, resp, provider_calls, pureVars>>

\* ------------------------------------------------------- specifications
\* Spec: the chat, create and timezone endpoints, two callers, time passing.  Here the chat requests
\* carry one input, the commits succeed and the provider returns one text;
\* bodies, persistence and provider outcomes are varied in SpecChat.
GateInit ==
    /\ ChatInit
    /\ AI_PROVIDER = "cohere"
    /\ api_key = "sk-live"
    /\ PureIdle

Next ==
    \/ \E u \in Users, body \in {JsonBody(TRUE, <<>>), JsonBody(TRUE, <<"hi">>)} :
           AiBegin(u, body, TRUE, MaxTurns)
    \/ \E u \in Users : AiProvider(u, FALSE, <<"[", "M", "]">>)
    \/ \E u \in Users : AiFinish(u, TRUE)
    \/ \E u \in Users, data \in EventData : create_event(u, data, MaxEvents)
    \/ \E u \in Users, tz \in TimezoneNames \cup {""} : update_user_timezone(u, tz)
    \/ Tick

Spec == GateInit /\ [][Next]_vars

\* SpecLimit: the four endpoints behind rate_limit, two callers, time
\* passing; no chat request and no listing.
GateData == {data \in EventData : data.start # 2}
LimitNext ==
    \/ \E u \in Users, data \in GateData : create_event(u, data, MaxEvents)
    \/ \E u \in Users, id \in 1..MaxEvents : delete_event(u, id)
    \/ \E u \in Users, id \in 1..MaxEvents, data \in UpdateData : update_event(u, id, data)
    \/ \E u \in Users : update_user_timezone(u, "Mars/Phobos")
    \/ Tick

SpecLimit == GateInit /\ [][LimitNext]_vars

\* SpecEvents: the event endpoints of two callers over a table of up to
\* MaxRows rows, time passing; no chat request and no timezone request.
EventsNext ==
    \/ \E u \in Users, data \in GateData : create_event(u, data, MaxRows)
    \/ \E u \in Users, id \in 1..MaxRows : delete_event(u, id)
    \/ \E u \in Users, id \in 1..MaxRows, data \in UpdateData : update_event(u, id, data)
    \/ \E u \in Users : get_events(u)
    \/ Tick

SpecEvents == GateInit /\ [][EventsNext]_vars

\* SpecChat: the chat pipeline alone, under every configuration, request
\* body, persistence outcome and provider outcome.
ProviderTexts ==
    {<<"p">>, <<"[", "]">>, <<"[", "n", "]">>, <<" ", "[", "A", ",", "M", "]">>}
ErrorDetails == {<<"[", "p", "]">>}

ChatNext ==
    \/ \E u \in Users, body \in BadBodies \cup {JsonBody(TRUE, <<"hi">>)},
          commit_ok \in BOOLEAN :
           AiBegin(u, body, commit_ok, MaxChatTurns)
    \/ \E u \in Users, text \in ProviderTexts : AiProvider(u, FALSE, text)
    \/ \E u \in Users, detail \in ErrorDetails : AiProvider(u, TRUE, detail)
    \/ \E u \in Users, commit_ok \in BOOLEAN : AiFinish(u, commit_ok)

SpecChat == Init /\ [][ChatNext]_vars

\* SpecHistory: the service restarted on a database that already holds
\* completed exchanges (the tables outlive the process), then chat requests
\* of two callers with two inputs under the default provider.
RECURSIVE Replay(_, _)
Replay(log, turns) ==
    IF turns = <<>> THEN log
    ELSE Replay(AppendTurn(log, turns[1][1], turns[1][2], turns[1][3]), Drop(turns, 1))
PriorHistories ==
    {Replay(<<>>, <<<<1, "user", <<"hi">>>>, <<1, "assistant", <<"[", "M", "]">>>>,
                    <<1, "user", <<"plan">>>>, <<1, "assistant", <<"p">>>>>>),
     Replay(<<>>, <<<<1, "user", <<"plan">>>>, <<2, "user", <<"hi">>>>,
                    <<1, "assistant", CohereNotConfigured>>, <<1, "user", <<"hi">>>>>>)}

HistoryInit ==
    /\ AI_PROVIDER = "cohere"
    /\ api_key \in {"", "sk-live"}
    /\ conversations \in PriorHistories
    /\ events = <<>>
    /\ timezone = [u \in Users |-> "UTC"]
    /\ request_counts = [u \in Users |-> <<>>]
    /\ admitted = [u \in Users |-> <<>>]
    /\ now = 0
    /\ pc = [u \in Users |-> "idle"]
    /\ req = [u \in Users |-> NoRequest]
    /\ resp = Sent(0, NoResponse)
    /\ provider_calls = 0
    /\ PureIdle

HistoryNext ==
    \/ \E u \in Users, i \in Inputs, commit_ok \in BOOLEAN :
           AiBegin(u, JsonBody(TRUE, i), commit_ok, MaxHistoryTurns)
    \/ \E u \in Users : AiProvider(u, FALSE, <<"[", "M", "]">>)
    \/ \E u \in Users, commit_ok \in BOOLEAN : AiFinish(u, commit_ok)

SpecHistory == HistoryInit /\ [][HistoryNext]_vars

\* SpecParse: the parsing step of ai() applied to every assistant text of
\* at most MaxLen characters.
ParseInit ==
    /\ ChatInit
    /\ AI_PROVIDER = "cohere" /\ api_key = ""
    /\ raw_text \in SeqsUpTo(ParseChars, MaxLen)
    /\ parse_result = [done |-> FALSE, extracted |-> <<>>, ok |-> FALSE, commands |-> <<>>]
    /\ date_in = <<>> /\ date_out = <<>> /\ passes = 0

\* lines 445-473 on raw_text
Parse ==
    /\ ~parse_result.done
    /\ parse_result' =
           [done |-> TRUE, extracted |-> ExtractCommands(raw_text),
            ok |-> NormalizeCommands(ExtractCommands(raw_text)).ok,
            commands |-> NormalizeCommands(ExtractCommands(raw_text)).commands]
    /\ UNCHANGED <<configVars, conversations, events, timezone, request_counts, admitted,
                   now, pc, req, resp, provider_calls, raw_text, date_in,
                   date_out, passes>>

SpecParse == ParseInit /\ [][Parse]_vars

\* SpecNorm: the date repair applied twice to every date string of at most
\* MaxDateLen characters.
NormInit ==
    /\ ChatInit
    /\ AI_PROVIDER = "cohere" /\ api_key = ""
    /\ raw_text = <<>>
    /\ parse_result = [done |-> FALSE, extracted |-> <<>>, ok |-> FALSE, commands |-> <<>>]
    /\ date_in \in SeqsUpTo(DateChars, MaxDateLen)
    /\ date_out = <<>>
    /\ passes = 0

\* one more pass of lines 468/471; date_out[k] is the string after k passes
Repair ==
    /\ passes < 2
    /\ date_out' = Append(date_out, FixDate(IF passes = 0 THEN date_in ELSE date_out[passes]))
    /\ passes' = passes + 1
    /\ UNCHANGED <<configVars, conversations, events, timezone, request_counts, admitted,
                   now, pc, req, resp, provider_calls, raw_text, parse_result,
                   date_in>>

SpecNorm == NormInit /\ [][Repair]_vars

\* ------------------------------------------------------------------ claims
\* C1: every chat response that carries a command list carries at least
\* one command (stated as the spec states it; refuted by the text "[]").
C1_NeverEmptyCommands ==
    (resp.endpoint = "ai" /\ resp.status = 200) => resp.commands # <<>>

\* C2: a chat request with non-empty input whose two commits succeed is
\* answered with a success, whatever the provider step produced (stated as
\* the spec states it; refuted by the text "[null]").
C2_OnlySystemFaultsFail ==
    [][\A u \in Users : AiFinish(u, TRUE) => resp'.status = 200]_vars

\* C5: the date repair applied twice gives what it gives applied once
\* (stated as the spec states it; refuted by "TTT").
C5_RepairIdempotent == passes = 2 => date_out[2] = date_out[1]

\* C8: a chat request without input (no usable body, no "input" member, or
\* an empty one) is answered with the client error and changes nothing
\* (stated as the spec states it; refuted by the request without a body).
C8_NoInputIsClientError ==
    [][\A u \in Users, body \in BadBodies, commit_ok \in BOOLEAN :
           AiBegin(u, body, commit_ok, MaxChatTurns) =>
               /\ resp'.status = 400
               /\ UNCHANGED <<conversations, events, provider_calls>>]_vars

\* C10: a caller whose record holds the ceiling of admitted requests within
\* the window gets no chat request into the pipeline: no turn of that
\* caller is appended and the request does not advance to the provider
\* (stated as the spec states it; refuted by a chat request after the
\* ceiling was reached through POST /api/events).
TurnsOf(log, u) == SelectSeq(log, LAMBDA row : row.user_id = u)
AtCeiling(u) ==
    Cardinality({i \in 1..Len(request_counts[u]) :
                    now - request_counts[u][i] < Window}) >= EventCeiling
C10_ChatIsRateLimited ==
    [][\A u \in Users :
           (AtCeiling(u) /\ pc[u] = "idle") =>
               /\ pc'[u] = "idle"
               /\ TurnsOf(conversations', u) = TurnsOf(conversations, u)]_vars

\* json.dumps of a value, with the given item separator ("," alone, or
\* "," and a space as json.dumps writes it)
RECURSIVE Encode(_, _), EncodeItems(_, _)
Encode(v, sep) ==
    IF v = Null THEN <<"n">>
    ELSE IF v = AddLiteral THEN <<"A">>
    ELSE IF v = MessageLiteral THEN <<"M">>
    ELSE <<"[">> \o EncodeItems(v.items, sep) \o <<"]">>
EncodeItems(items, sep) ==
    IF items = <<>> THEN <<>>
    ELSE IF Len(items) = 1 THEN Encode(items[1], sep)
    ELSE Encode(items[1], sep) \o sep \o EncodeItems(Drop(items, 1), sep)

\* the arrays of at most two items, nested at most three deep, over null
\* and the ADD literal, each with its two encodings
Scalars == {Null, AddLiteral}
ListsOver(V) == SeqsUpTo(V, 2)
Nested1 == Scalars \cup {JList(l) : l \in ListsOver(Scalars)}
Nested2 == Nested1 \cup {JList(<<v>>) : v \in {JList(l) : l \in ListsOver(Scalars)}}
SampleArrays == ListsOver(Nested1) \cup {<<v>> : v \in Nested2}
EncodedArrays ==
    {[text |-> Encode(JList(l), sep), val |-> l] :
        l \in SampleArrays, sep \in {<<",">>, <<",", " ">>}}

\* text holds g at position i
OccursAt(text, g, i) == i + Len(g) - 1 <= Len(text) /\ SubSeq(text, i, i + Len(g) - 1) = g
\* ... with no "[" before it and no "]" after it
SpansBrackets(text, g, i) ==
    /\ OccursAt(text, g, i)
    /\ \A k \in 1..(i - 1) : text[k] # "["
    /\ \A k \in (i + Len(g))..Len(text) : text[k] # "]"

\* C3 as the spec states it: a text that holds a well-formed JSON array
\* anywhere is extracted to the decoding of an array it holds.
C3_AnyArrayIsExtracted ==
    (parse_result.done /\
     \E e \in EncodedArrays, i \in 1..Len(raw_text) : OccursAt(raw_text, e.text, i))
    => \E e \in EncodedArrays, i \in 1..Len(raw_text) :
           OccursAt(raw_text, e.text, i) /\ parse_result.extracted = e.val

\* C3, amended: when a well-formed JSON array runs from the leftmost "[" of
\* the text to its rightmost "]" (alone, or wrapped in text that has no "["
\* before the array and no "]" after it), the list extracted before the
\* date repair is the decoded array.
C3_SpanningArrayIsExtracted ==
    parse_result.done =>
        \A e \in EncodedArrays, i \in 1..Len(raw_text) :
            SpansBrackets(raw_text, e.text, i) => parse_result.extracted = e.val

\* an array wrapped in prose was extracted
C3_Witness ==
    /\ parse_result.done
    /\ raw_text = <<"p", "[", "A", "]", "p">>
    /\ parse_result.extracted = <<AddLiteral>>

\* C4: a text with no "[" before a "]", or whose leftmost-"[" to
\* rightmost-"]" substring does not decode, gives exactly one MESSAGE
\* command whose text is the raw text, and the parsing step raises nothing.
LeftBrackets(text) == {i \in 1..Len(text) : text[i] = "["}
RightBrackets(text) == {i \in 1..Len(text) : text[i] = "]"}
HasBracketPair(text) ==
    \E i \in LeftBrackets(text), j \in RightBrackets(text) : i < j
OuterSubstring(text) == SubSeq(text, Min(LeftBrackets(text)), Max(RightBrackets(text)))
Undecodable(text) == HasBracketPair(text) /\ ~JsonLoads(OuterSubstring(text)).ok
C4_FallbackToMessage ==
    (parse_result.done /\ (~HasBracketPair(raw_text) \/ Undecodable(raw_text)))
    => /\ parse_result.extracted = <<MessageCommand(raw_text)>>
       /\ parse_result.ok
       /\ parse_result.commands = <<MessageCommand(raw_text)>>

\* an undecodable bracketed part fell back to the whole text
C4_Witness ==
    /\ parse_result.done
    /\ Undecodable(raw_text)
    /\ raw_text = <<"[", "n", "]", "p", "]">>
    /\ parse_result.commands = <<MessageCommand(raw_text)>>

\* C6: with the credential of the active provider unset or equal to that
\* provider's placeholder, no call to the provider is ever made, every chat
\* request that gets to the provider step carries the provider's fixed
\* "not configured" text, every success is exactly one MESSAGE command
\* with that text, and only a failed commit or an unusable body fails.
Unconfigured ==
    \/ AI_PROVIDER = "openai" /\ api_key \in {"", "your-openai-api-key-here"}
    \/ AI_PROVIDER = "cohere" /\ api_key \in {"", "your-cohere-api-key-here"}
NotConfiguredText ==
    IF AI_PROVIDER = "openai" THEN OpenAINotConfigured ELSE CohereNotConfigured
C6_NotConfiguredMessage ==
    Unconfigured =>
        /\ provider_calls = 0
        /\ \A u \in Users : pc[u] = "save" => req[u].assistant_msg = NotConfiguredText
        /\ (resp.endpoint = "ai" /\ resp.status = 200)
               => resp.commands = <<MessageCommand(NotConfiguredText)>>
        /\ (resp.endpoint = "ai" /\ resp.status = 500)
               => resp.logged \in {"OperationalError", "BadRequest"}

\* a request under the placeholder credential got its answer
C6_Witness ==
    /\ AI_PROVIDER = "cohere"
    /\ api_key = "your-cohere-api-key-here"
    /\ resp.status = 200
    /\ resp.commands = <<MessageCommand(CohereNotConfigured)>>
    /\ Len(conversations) = 2

\* C7: while a chat request is at or past the provider step its user turn
\* is a committed row of the caller's log, and until the provider step has
\* produced its text that row is the caller's last; the log only grows by
\* appended rows; the provider is called only for a request whose user turn
\* is in the log; and an assistant row is appended only for a request past
\* the provider step, after that request's user row.
UserTurnAt(log, u, k) ==
    /\ k \in 1..Len(log)
    /\ log[k].user_id = u
    /\ log[k].role = "user"
    /\ log[k].content = req[u].user_input
IsPrefix(s, t) == Len(s) <= Len(t) /\ SubSeq(t, 1, Len(s)) = s
C7_UserTurnCommitted ==
    \A u \in Users :
        /\ pc[u] # "idle" => UserTurnAt(conversations, u, req[u].user_conversation)
        /\ pc[u] = "provider" =>
               \A k \in (req[u].user_conversation + 1)..Len(conversations) :
                   conversations[k].user_id # u
C7_Step ==
    /\ IsPrefix(conversations, conversations')
    /\ provider_calls' # provider_calls =>
           \E u \in Users :
               /\ pc[u] = "provider" /\ pc'[u] = "save"
               /\ UserTurnAt(conversations, u, req[u].user_conversation)
    /\ \A k \in (Len(conversations) + 1)..Len(conversations') :
           conversations'[k].role = "assistant" =>
               LET u == conversations'[k].user_id IN
               /\ pc[u] = "save"
               /\ conversations'[k].content = req[u].assistant_msg
               /\ UserTurnAt(conversations, u, req[u].user_conversation)
C7_TurnOrder == [](C7_UserTurnCommitted) /\ [][C7_Step]_vars

\* the provider raised for one request and the assistant turn of another
\* could not be saved; the user turns of both are in the log
C7_Witness ==
    /\ Len(conversations) = 3
    /\ conversations[1].role = "user"
    /\ conversations[2].role = "assistant"
    /\ conversations[2].content = OpenAIError(<<"[", "p", "]">>)
    /\ conversations[3].role = "user"
    /\ resp.logged = "OperationalError"
    /\ \A u \in Users : pc[u] = "idle"

\* C9: when the caller's log holds more than 5 turns, the message list of
\* the request in flight is the system instruction, the context message and
\* then exactly the caller's 5 latest turns, oldest first, the last one
\* being the input of this request.
AsMessage(row) == [role |-> row.role, content |-> row.content]
C9_LastFiveTurns ==
    \A u \in Users :
        LET own == TurnsOf(conversations, u)
            messages == req[u].messages
        IN (pc[u] # "idle" /\ Len(own) > 5) =>
               /\ Len(messages) = 2 + 5
               /\ messages[1].role = "system"
               /\ messages[2].role = "user"
               /\ messages[2].content[1] = "Current time. User's timezone: "
               /\ \A k \in 1..5 : messages[2 + k] = AsMessage(own[Len(own) - 5 + k])
               /\ messages[7] = [role |-> "user", content |-> req[u].user_input]

\* caller 1 has a request in flight over a log of more than 5 own turns in
\* which turns of caller 2 lie between its latest five
C9_Witness ==
    /\ pc[1] # "idle"
    /\ Len(TurnsOf(conversations, 1)) > 5
    /\ \E k \in 1..Len(conversations) :
           /\ conversations[k].user_id = 2
           /\ k > req[1].user_conversation - 5
           /\ k < req[1].user_conversation

\* the endpoints behind rate_limit and the max_requests of each decorator
RateLimitedEndpoints ==
    {"create_event", "delete_event", "update_event", "update_user_timezone"}
Ceiling(endpoint) ==
    IF endpoint = "update_user_timezone" THEN TimezoneCeiling ELSE EventCeiling

\* how many of the requests of caller u that were let through, at whatever
\* endpoint, lie within the last Window instants
Recent(times) == SelectSeq(times, LAMBDA t : now - t < Window)
RecentlyAdmitted(u) == Len(Recent(admitted[u]))

\* C11: the record of a caller holds, within the window, exactly the times
\* of that caller's requests that were let through at any rate-limited
\* endpoint.  A request of caller u to an endpoint with ceiling M is let
\* through only if fewer than M of u's requests let through before lie
\* within the window, and is rejected only if at least M do; a rejected
\* request is answered 429, adds no entry to u's record, is not counted and
\* changes no event and no timezone; and a request changes the record and
\* the history of its own caller only.
C11_RecordIsShared ==
    \A u \in Users : Recent(request_counts[u]) = Recent(admitted[u])
C11_Request ==
    \A u \in Users :
        /\ admitted'[u] # admitted[u] =>
               /\ admitted'[u] = Append(admitted[u], now)
               /\ resp'.user = u
               /\ resp'.endpoint \in RateLimitedEndpoints
               /\ resp'.status # 429
               /\ RecentlyAdmitted(u) < Ceiling(resp'.endpoint)
        /\ \A endpoint \in RateLimitedEndpoints :
               (/\ now' = now
                /\ resp'.user = u
                /\ resp'.endpoint = endpoint
                /\ resp'.status = 429) =>
                   /\ resp'.error = "Rate limit exceeded"
                   /\ RecentlyAdmitted(u) >= Ceiling(endpoint)
                   /\ admitted'[u] = admitted[u]
                   /\ request_counts'[u] = Recent(request_counts[u])
                   /\ UNCHANGED <<events, timezone>>
        /\ (request_counts'[u] # request_counts[u] \/ admitted'[u] # admitted[u]) =>
               /\ resp'.user = u
               /\ \A v \in Users \ {u} :
                      /\ request_counts'[v] = request_counts[v]
                      /\ admitted'[v] = admitted[v]
C11_RateLimit == []C11_RecordIsShared /\ [][C11_Request]_vars

\* caller 1, let through once long ago and once just now at an event
\* endpoint, is rejected at the timezone endpoint, while caller 2 was let
\* through at the same instant
C11_Witness ==
    /\ resp = Sent(1, RateLimited("update_user_timezone"))
    /\ \E i \in 1..Len(admitted[1]) : now - admitted[1][i] >= Window
    /\ RecentlyAdmitted(1) = TimezoneCeiling
    /\ \E i \in 1..Len(events) : events[i].created_by = 1
    /\ timezone[1] = "UTC"
    /\ RecentlyAdmitted(2) > 0

\* the rows a user's requests inserted, as get_events reports them
CreatedBy(evs, u) ==
    LET own == SelectSeq(evs, LAMBDA e : e.created_by = u)
    IN [i \in 1..Len(own) |-> EventJson(own[i])]

\* the step is a request of caller u to update_event or delete_event that
\* names an id no event of u carries: an event of another user, or none
NamesForeignEvent(u) ==
    /\ now' = now
    /\ resp'.user = u
    /\ resp'.endpoint \in {"update_event", "delete_event"}
    /\ \A i \in 1..Len(events) :
           events[i].id = resp'.event_id => events[i].created_by # u

\* what holds of every request whatever the answer to a foreign id is
C12_Request(ForeignAnswer(_)) ==
    \A u \in Users :
        /\ NamesForeignEvent(u) => (ForeignAnswer(u) /\ events' = events)
        /\ (now' = now /\ resp'.user = u /\ resp'.endpoint = "get_events") =>
               /\ resp'.events = CreatedBy(events, u)
               /\ events' = events
        /\ EventsOf(events', u) # EventsOf(events, u) => resp'.user = u

NotFound == resp'.status = 404 /\ resp'.error = "Event not found"
C12_OwnerIsCreator ==
    \A i \in 1..Len(events) :
        /\ events[i].user_id = events[i].created_by
        /\ \A j \in 1..Len(events) : events[i].id = events[j].id => i = j

\* C12 as stated: every event is owned by the user who created it; every
\* update or delete request naming an event of another user, or a
\* nonexistent id, is answered "Event not found" and changes no event; a
\* listing is exactly the caller's own events; and no request changes the
\* events of a user other than its caller.
C12_AlwaysNotFound ==
    []C12_OwnerIsCreator /\ [][C12_Request(LAMBDA u : NotFound)]_vars

\* C12, amended: the same, except that such a request made while the caller
\* stands at the ceiling of rate_limit is answered "Rate limit exceeded"
\* instead, and changes no event either.
NotFoundOrRateLimited(u) ==
    IF RecentlyAdmitted(u) >= EventCeiling
    THEN resp'.status = 429 /\ resp'.error = "Rate limit exceeded"
    ELSE NotFound
C12_Isolation ==
    []C12_OwnerIsCreator /\ [][C12_Request(NotFoundOrRateLimited)]_vars

\* both users own an event, and user 2 was just answered "Event not found"
\* on naming the event of user 1; user 1 had changed its own event before
C12_Witness ==
    /\ resp.user = 2
    /\ resp.endpoint \in {"update_event", "delete_event"}
    /\ resp.status = 404
    /\ \E i, j \in 1..Len(events) :
           /\ events[i].user_id = 1
           /\ events[i].id = resp.event_id
           /\ events[i].title = <<"new">>
           /\ events[j].user_id = 2
====
